---- MODULE Spec2Model ----
(***************************************************************************)
(* Daily racing pipeline (25-MLOps/Module03): the Prefect flow             *)
(* daily_race_scraping_flow, its five tasks, the scraper session that the  *)
(* fetch task drives, the validator, the transformer and the exporter.     *)
(* The clock now counts seconds; it moves between invocations and over the *)
(* retry delays of Prefect.  The sleeps of a scraper session, a few        *)
(* seconds each, are kept in the session's own record, sleeps.             *)
(***************************************************************************)
EXTENDS Integers, Sequences, FiniteSets, TLC

(***************************************************************************)
(* Bounds of the model.                                                    *)
(***************************************************************************)
MaxInvocations == 2      \* invocations of the flow by its caller

(***************************************************************************)
(* Program constants.                                                      *)
(***************************************************************************)
ScrapeCacheExpiration == 3600    \* cache_expiration=timedelta(hours=1)
ValidateTaskRetries == 2         \* @task(retries=2) of validate_racing_data
ValidateRetryDelay == 30         \* retry_delay_seconds=30
TransformCacheExpiration == 21600 \* cache_expiration=timedelta(hours=6)
ExportTaskRetries == 2           \* @task(retries=2) of export_processed_data
\* a flow allowed two retries instead of one
FlowRetries_two == 1 + 1
FlowRetries == 1                 \* @flow(retries=1)
FlowRetryDelay == 300            \* retry_delay_seconds=300
base_delay == 2                  \* TABScraper: ScrapingConfig(base_delay=2.0)
max_delay == 5                   \* TABScraper: ScrapingConfig(max_delay=5.0)
max_retries == 3                 \* ScrapingConfig.max_retries default
SecondsPerDay == 24 * 60 * 60

\* Python's None and a present value; a cell of a frame is one or the other
None == << >>
Some(v) == << v >>
Statuses == {"success", "no_data", "validation_failed", "failed"}

(***************************************************************************)
(* Raw records.  A record is a dict (a function from its keys); a batch is *)
(* a list of dicts.  Dates are day numbers, day 0 being the day the model  *)
(* starts on; an ISO date string is kept as the day it spells.  A race     *)
(* number is a number, Some(n), or the text that spells it, Text(n).       *)
(***************************************************************************)
Dates == {0, 1}

\* the text that spells the number n, as a cell
Text(n) == << n, "text" >>

IsText(cell) == Len(cell) = 2

\* the dict _parse_race_card builds for one race card
Race(d, n, t) ==
    [date |-> Some(d), race_time |-> Some("14:30"), race_number |-> Text(n),
     track |-> Some(t), distance |-> Some("1200"), horses |-> Some(<< >>),
     source |-> Some("tab_nz"), scraped_at |-> Some("ts")]

\* the pages the source can answer with: without race cards, with two
\* ordinary cards, with a card whose track span is empty
PageKinds == {"no_cards", "good", "no_track"}

\* The records scrape_daily_races parses out of one fetched page for
\* target date d.
ParsePage(kind, d) ==
    CASE kind = "no_cards" -> << >>
      [] kind = "good"     -> << Race(d, 1, "Ellerslie"), Race(d, 2, "Trentham") >>
      [] kind = "no_track" -> << Race(d, 1, "") >>

\* date.today() at clock t
Today(t) == t \div SecondsPerDay

(***************************************************************************)
(* pl.DataFrame(raw_data): the column set and the cell values.             *)
(***************************************************************************)
Columns(raw) == UNION { DOMAIN raw[i] : i \in 1..Len(raw) }

Cell(row, col) == IF col \in DOMAIN row THEN row[col] ELSE None

\* the column holds text
TextColumn(raw, col) == \E i \in DOMAIN raw : IsText(Cell(raw[i], col))

\* pl.DataFrame(raw_data) builds a frame unless a column holds numbers in
\* some records and text in others
Framable(raw) ==
    \A col \in Columns(raw) :
        ~ /\ TextColumn(raw, col)
          /\ \E i \in DOMAIN raw : Len(Cell(raw[i], col)) = 1

\* df.filter(...).height, the filter given as the set of rows it keeps
Height(rows) == Cardinality(rows)

required_fields_short == << "date", "race_number", "track" >>

required_fields == << "date", "race_number", "track", "source" >>

RECURSIVE Filter(_, _)
Filter(seq, keep) ==
    IF seq = << >> THEN << >>
    ELSE IF Head(seq) \in keep THEN << Head(seq) >> \o Filter(Tail(seq), keep)
         ELSE Filter(Tail(seq), keep)

\* a diagnostic string: its fixed text and the values formatted into it
Diag(msg, arg) == [msg |-> msg, arg |-> arg]

(***************************************************************************)
(* RaceDataValidator: each check returns <<errors, warnings>>.             *)
(***************************************************************************)
_check_date_validity(raw, today) ==
    IF "date" \notin Columns(raw)
    THEN << << Diag("Date column missing", << >>) >>, << >> >>
    ELSE LET null_dates == Height({ i \in DOMAIN raw : Cell(raw[i], "date") = None })
             future_dates == Height({ i \in DOMAIN raw :
                                          /\ Cell(raw[i], "date") # None
                                          /\ Cell(raw[i], "date")[1] > today })
         IN << IF null_dates > 0
               THEN << Diag("records have null dates", << null_dates >>) >> ELSE << >>,
               IF future_dates > 0
               THEN << Diag("records have future dates", << future_dates >>) >> ELSE << >> >>

\* A race_number column of numbers is compared with 1 and 15.  The
\* scraper's column holds text: whether polars evaluates the comparison of
\* such a column with an integer or raises is a property of the installed
\* polars (compares); an exception is caught and becomes an error.
_check_race_numbers(raw, compares) ==
    IF "race_number" \notin Columns(raw)
    THEN << << >>, << >> >>
    ELSE IF TextColumn(raw, "race_number") /\ ~compares
    THEN << << Diag("Race number validation failed", << >>) >>, << >> >>
    ELSE LET invalid_races ==
                 Height({ i \in DOMAIN raw :
                              /\ Cell(raw[i], "race_number") # None
                              /\ \/ Cell(raw[i], "race_number")[1] < 1
                                 \/ Cell(raw[i], "race_number")[1] > 15 })
         IN << << >>,
               IF invalid_races > 0
               THEN << Diag("records have unusual race numbers", << invalid_races >>) >>
               ELSE << >> >>

_check_track_names(raw) ==
    IF "track" \notin Columns(raw)
    THEN << << >>, << >> >>
    ELSE LET empty_tracks ==
                 Height({ i \in DOMAIN raw : \/ Cell(raw[i], "track") = None
                                              \/ Cell(raw[i], "track") = Some("") })
         IN << IF empty_tracks > 0
               THEN << Diag("records have missing track names", << empty_tracks >>) >>
               ELSE << >>,
               << >> >>

_check_horse_data_quality(raw) ==
    << << >>,
       IF "horses" \in Columns(raw)
       THEN << Diag("Horse data validation not yet implemented", << >>) >> ELSE << >> >>

\* is_valid = len(errors) == 0
NoErrors_lenient(errors) == Len(errors) <= 1

NoErrors(errors) == Len(errors) = 0

\* t is the clock at the call: datetime.now() stamps the stats and
\* date.today() is the day the dates are compared with
validate_scraped_data(raw, t, compares) ==
    LET stats == [total_records |-> Len(raw), races_processed |-> 0,
                  horses_processed |-> 0, validation_timestamp |-> t]
    IN
    IF raw = << >>
    THEN [is_valid |-> FALSE,
          errors |-> << Diag("No data provided for validation", << >>) >>,
          warnings |-> << >>,
          stats |-> stats]
    ELSE IF ~Framable(raw)
    THEN [is_valid |-> FALSE,
          errors |-> << Diag("Failed to create DataFrame", << >>) >>,
          warnings |-> << >>,
          stats |-> stats]
    ELSE LET missing_fields ==
                 Filter(required_fields,
                        { f \in {"date", "race_number", "track", "source"} :
                              f \notin Columns(raw) })
             validation_checks ==
                 << _check_date_validity(raw, Today(t)),
                    _check_race_numbers(raw, compares),
                    _check_track_names(raw), _check_horse_data_quality(raw) >>
             errors ==
                 (IF missing_fields # << >>
                  THEN << Diag("Missing required fields", missing_fields) >> ELSE << >>)
                 \o validation_checks[1][1] \o validation_checks[2][1]
                 \o validation_checks[3][1] \o validation_checks[4][1]
             warnings ==
                 validation_checks[1][2] \o validation_checks[2][2]
                 \o validation_checks[3][2] \o validation_checks[4][2]
             total_checks == Len(validation_checks) * 4
             failed_checks == Len(errors)
         IN [is_valid |-> NoErrors(errors),
             errors |-> errors,
             warnings |-> warnings,
             stats |-> [stats EXCEPT !.races_processed = Len(raw)]
                       \* the score as a fraction <<numerator, denominator>>
                       @@ [data_quality_score |->
                              << IF total_checks - failed_checks > 0
                                 THEN total_checks - failed_checks ELSE 0,
                                 total_checks >>]]

(***************************************************************************)
(* RaceDataTransformer: the column sets each step reads and adds.  A step  *)
(* raises when a column it reads is not in the frame.                      *)
(***************************************************************************)
\* the outcome of a call: a returned value or a raised exception
Return(v) == [raised |-> FALSE, value |-> << v >>]
Raise(e) == [raised |-> TRUE, value |-> << e >>]

clean_scraped_data(df) ==
    IF {"date", "track", "source", "race_time"} \subseteq df.columns
    THEN Return([df EXCEPT !.columns = @ \cup {"race_date", "track_clean",
                                               "race_minutes"}])
    ELSE Raise("Data cleaning failed")

engineer_basic_features(df) ==
    IF {"race_date", "race_minutes", "track_clean", "scraped_at"} \subseteq df.columns
    THEN Return([df EXCEPT !.columns = @ \cup {"day_of_week", "month", "race_hour",
                                               "track_race_count",
                                               "scraped_timestamp", "processed_at"}])
    ELSE Raise("Feature engineering failed")

create_betting_features_select(df) ==
    IF {"race_minutes", "track_clean"} \subseteq df.columns
    THEN Return([df EXCEPT !.columns = {"minutes_to_post", "track_type", "field_size"}])
    ELSE Raise("Betting feature engineering failed")

create_betting_features(df) ==
    IF {"race_minutes", "track_clean"} \subseteq df.columns
    THEN Return([df EXCEPT !.columns = @ \cup {"minutes_to_post", "track_type",
                                               "field_size"}])
    ELSE Raise("Betting feature engineering failed")

\* body of the task transform_racing_data; evaluates says whether polars
\* evaluates the expressions of the three steps or raises in the first
transform_racing_data(raw, evaluates) ==
    LET df == [columns |-> Columns(raw), height |-> Len(raw)]
        cleaned_df == IF evaluates THEN clean_scraped_data(df)
                      ELSE Raise("Data cleaning failed")
        featured_df == IF cleaned_df.raised THEN cleaned_df
                       ELSE engineer_basic_features(cleaned_df.value[1])
        betting_df == IF featured_df.raised THEN featured_df
                      ELSE create_betting_features(featured_df.value[1])
    IN betting_df


(***************************************************************************)
(* State.                                                                  *)
(***************************************************************************)
VARIABLES
    invocations,      \* how many times the caller has invoked the flow
    outcome,          \* what the caller got: "none", "returned" or "raised"
    returned,         \* the dict handed back to the caller, None while there is none
    now,              \* the clock, in seconds
    scrape_cache,     \* cached results of scrape_tab_racing_data
    transform_cache,  \* cached results of transform_racing_data
    pc,               \* where the flow run is
    target_date,      \* parameter of the flow
    export_formats,   \* parameter of the flow
    text_compares,    \* whether the installed polars compares a text column
                      \* with an integer (TRUE) or raises (FALSE)
    flow_run,         \* which execution of the flow function this is (1 = first)
    pipeline_stats,   \* the dict the flow function builds
    stages,           \* the tasks this execution of the flow has called, in order
    task_run,         \* retries the current task has used
    raw_data,         \* result of the fetch stage
    is_valid,         \* result of the validation stage, None before it
    processed_df,     \* result of the transform stage, None before it
    request_count,    \* BaseScraper.request_count of the open session
    failed_requests,  \* BaseScraper.failed_requests of the open session
    attempt,          \* loop variable of make_request
    sleeps,           \* the time.sleep calls of the open session, in order
    races_data,       \* what scrape_daily_races is about to return
    request_result,   \* how the make_request of this execution ended
    export_paths,     \* the dict export_processed_data builds
    attempted,        \* formats whose write the export stage has tried
    write_failed,     \* formats whose write has failed during the export stage
    written,          \* formats whose write has succeeded during the export stage
    from_cache,       \* stages of this execution answered from the cache
    executed          \* stages of this execution whose task body ran

callerVars == << invocations, outcome, returned >>
cacheVars == << scrape_cache, transform_cache >>
inputVars == << target_date, export_formats, text_compares >>
dataVars == << raw_data, is_valid, processed_df >>
sessionVars == << request_count, failed_requests, attempt, sleeps, races_data,
                 request_result >>
exportVars == << export_paths, attempted, write_failed, written >>
histVars == << from_cache, executed >>

vars == << invocations, outcome, returned, now, scrape_cache, transform_cache, pc,
           target_date, export_formats, text_compares, flow_run, pipeline_stats, stages, task_run,
           raw_data, is_valid, processed_df, request_count, failed_requests,
           attempt, sleeps, races_data, request_result, export_paths, attempted, write_failed,
           written, from_cache, executed >>

(***************************************************************************)
(* State of the other specifications of this module: two concurrent runs   *)
(* of the fetch task over one cache.  The flow's specification leaves it   *)
(* as it starts.                                                           *)
(***************************************************************************)
VARIABLES
    run_pc,           \* where each of the concurrent task runs is
    run_result,       \* what each task run handed back, None before
    shared_cache,     \* the cache the concurrent runs share
    body_runs,        \* the task runs whose body was executed
    cache_writers     \* the task runs that wrote the cache entry, in order

concVars == << run_pc, run_result, shared_cache, body_runs, cache_writers >>

\* a caller of DataValidator.validate_scraped_data: the batch it holds, the
\* installed polars, and its calls so far, each with its clock and result
VARIABLES val_batch, val_compares, val_calls

valVars == << val_batch, val_compares, val_calls >>

\* a caller of RaceDataTransformer._parse_race_time: its argument and the
\* value returned
VARIABLES time_str, race_minutes

parseVars == << time_str, race_minutes >>

\* a caller of transform_racing_data: the batch, and the outcome of the call
VARIABLES xf_raw, xf_result

xfVars == << xf_raw, xf_result >>

\* a RaceDataExporter: its export_stats, and the export calls made on it
VARIABLES export_stats, export_log

expVars == << export_stats, export_log >>

\* a caller of detect_data_anomalies: the race counts of the days of the
\* frame, and the anomalies returned
VARIABLES daily_counts, anomalies

anomVars == << daily_counts, anomalies >>

\* a caller of calculate_data_freshness_metrics: the scraped_at values of
\* the frame, the clock at the call, and the metrics returned
VARIABLES scraped_ats, mon_now, freshness

freshVars == << scraped_ats, mon_now, freshness >>

\* data_quality_monitoring_flow: the export files under processed_data, the
\* cache of load_recent_data, the files under monitoring_reports, the calls
\* of save_monitoring_report completed, the clock, and the last run
VARIABLES disk_exports, load_cache, report_files, saves_done, mon_clock, last_run

monVars == << disk_exports, load_cache, report_files, saves_done, mon_clock, last_run >>

\* a scraper session and the make_request calls made on it: the position in
\* the call, the two counters, the pass of the loop, the time since the last
\* request was sent, the calls started, and the last pass of the loop
VARIABLES sess_pc, sess_request_count, sess_failed_requests, sess_attempt, sess_elapsed, sess_calls, sess_last

sessVars == << sess_pc, sess_request_count, sess_failed_requests, sess_attempt, sess_elapsed, sess_calls, sess_last >>

\* backfill_racing_data_flow: its arguments, its locals current_date and
\* results, its position, the runs of the daily flow in progress, the dates
\* whose run raised, and the value returned
VARIABLES start_date, end_date, max_parallel, current_date, results, back_pc, in_progress, raised_dates, back_returned

backVars == << start_date, end_date, max_parallel, current_date, results, back_pc, in_progress, raised_dates, back_returned >>

auxVars == << concVars, valVars, parseVars, xfVars, expVars, anomVars, freshVars, monVars, sessVars, backVars >>

notConc == << valVars, parseVars, xfVars, expVars, anomVars, freshVars, monVars, sessVars, backVars >>

notVal == << concVars, parseVars, xfVars, expVars, anomVars, freshVars, monVars, sessVars, backVars >>

notParse == << concVars, valVars, xfVars, expVars, anomVars, freshVars, monVars, sessVars, backVars >>

notXf == << concVars, valVars, parseVars, expVars, anomVars, freshVars, monVars, sessVars, backVars >>

notExp == << concVars, valVars, parseVars, xfVars, anomVars, freshVars, monVars, sessVars, backVars >>

notAnom == << concVars, valVars, parseVars, xfVars, expVars, freshVars, monVars, sessVars, backVars >>

notFresh == << concVars, valVars, parseVars, xfVars, expVars, anomVars, monVars, sessVars, backVars >>

notMon == << concVars, valVars, parseVars, xfVars, expVars, anomVars, freshVars, sessVars, backVars >>

notSess == << concVars, valVars, parseVars, xfVars, expVars, anomVars, freshVars, monVars, backVars >>

notBack == << concVars, valVars, parseVars, xfVars, expVars, anomVars, freshVars, monVars, sessVars >>

\* the concurrent task runs
Runs == {1, 2}

ConcParked ==
    /\ run_pc = [r \in Runs |-> "idle"]
    /\ run_result = [r \in Runs |-> None]
    /\ shared_cache = {}
    /\ body_runs = {}
    /\ cache_writers = << >>

ValParked ==
    /\ val_batch = << >>
    /\ val_compares = FALSE
    /\ val_calls = << >>

ParseParked == time_str = << >> /\ race_minutes = None

XfParked == xf_raw = << >> /\ xf_result = None

ExpParked == export_stats = None /\ export_log = << >>

AnomParked == daily_counts = << >> /\ anomalies = None

FreshParked == scraped_ats = << >> /\ mon_now = 0 /\ freshness = None

MonParked ==
    /\ disk_exports = << >>
    /\ load_cache = {}
    /\ report_files = << >>
    /\ saves_done = 0
    /\ mon_clock = 0
    /\ last_run = None

SessParked ==
    /\ sess_pc = "idle"
    /\ sess_request_count = 0
    /\ sess_failed_requests = 0
    /\ sess_attempt = 0
    /\ sess_elapsed = None
    /\ sess_calls = 0
    /\ sess_last = None

BackParked ==
    /\ start_date = 0
    /\ end_date = 0
    /\ max_parallel = 0
    /\ current_date = 0
    /\ results = << >>
    /\ back_pc = "idle"
    /\ in_progress = 0
    /\ raised_dates = {}
    /\ back_returned = None

AuxParked ==
    /\ ConcParked
    /\ ValParked
    /\ ParseParked
    /\ XfParked
    /\ ExpParked
    /\ AnomParked
    /\ FreshParked
    /\ MonParked
    /\ SessParked
    /\ BackParked

\* the export_formats lists the caller passes
FormatChoices == { {"parquet", "csv", "summary"}, {"parquet", "csv"} }

\* the time between two invocations by the caller
Gaps == { 0, ScrapeCacheExpiration, TransformCacheExpiration }

\* the flow before its first invocation
FlowInit ==
    /\ invocations = 0
    /\ outcome = "none"
    /\ returned = None
    /\ now = 0
    /\ scrape_cache = {}
    /\ transform_cache = {}
    /\ pc = "idle"
    /\ target_date = 0
    /\ export_formats = {}
    /\ text_compares \in BOOLEAN
    /\ flow_run = 0
    /\ pipeline_stats = << >>
    /\ stages = << >>
    /\ task_run = 0
    /\ raw_data = << >>
    /\ is_valid = None
    /\ processed_df = None
    /\ request_count = 0
    /\ failed_requests = 0
    /\ attempt = 0
    /\ sleeps = << >>
    /\ races_data = << >>
    /\ request_result = "none"
    /\ export_paths = {}
    /\ attempted = {}
    /\ write_failed = {}
    /\ written = {}
    /\ from_cache = {}
    /\ executed = {}

Init == FlowInit /\ AuxParked

\* the flow as the other specifications leave it: never invoked
FlowParked == FlowInit /\ ~text_compares

(***************************************************************************)
(* Prefect's result cache: cache_key_fn=task_input_hash keys an entry by   *)
(* the task's arguments, cache_expiration bounds its life.                 *)
(***************************************************************************)
\* a cache that never lets an entry expire
CacheHit_no_expiry(cache, key, t) == { e \in cache : e.key = key }

CacheHit(cache, key, t) == { e \in cache : e.key = key /\ t < e.expiration }

CacheStore(cache, key, value, t, ttl) ==
    { e \in cache : e.key # key }
        \cup { [key |-> key, value |-> value, stored |-> t, expiration |-> t + ttl] }

\* dict.update
Update(d, u) ==
    [ k \in DOMAIN d \cup DOMAIN u |-> IF k \in DOMAIN u THEN u[k] ELSE d[k] ]

(***************************************************************************)
(* The caller invokes daily_race_scraping_flow(target_date, export_formats)*)
(***************************************************************************)
\* the locals of a call of the flow function before its first statement
FreshLocals ==
    /\ stages' = << >>
    /\ task_run' = 0
    /\ raw_data' = << >>
    /\ is_valid' = None
    /\ processed_df' = None
    /\ request_count' = 0
    /\ failed_requests' = 0
    /\ attempt' = 0
    /\ sleeps' = << >>
    /\ races_data' = << >>
    /\ request_result' = "none"
    /\ export_paths' = {}
    /\ attempted' = {}
    /\ write_failed' = {}
    /\ written' = {}
    /\ from_cache' = {}
    /\ executed' = {}

Invoke(d, fmts, gap) ==
    /\ pc \in {"idle", "done"}
    /\ invocations < MaxInvocations
    /\ invocations' = invocations + 1
    /\ now' = IF invocations = 0 THEN now ELSE now + gap
    /\ target_date' = d
    /\ export_formats' = fmts
    /\ UNCHANGED << text_compares, auxVars >>
    /\ flow_run' = 1
    /\ outcome' = "none"
    /\ returned' = None
    /\ pipeline_stats' = << >>
    /\ FreshLocals
    /\ pc' = "pending"
    /\ UNCHANGED cacheVars

\* daily_race_scraping_flow up to the try block: PENDING -> FETCHING with a
\* new pipeline_stats
FlowStart ==
    /\ pc = "pending"
    /\ pipeline_stats' = [target_date |-> target_date]
    /\ FreshLocals
    /\ pc' = "fetch"
    /\ UNCHANGED << callerVars, now, cacheVars, inputVars, auxVars, flow_run >>

\* the except block of the flow: record the failure and re-raise; Prefect
\* runs the flow function again while retries are left
FlowFail(e) ==
    /\ pipeline_stats' = Update(pipeline_stats, [status |-> "failed", error |-> e])
    /\ IF flow_run <= FlowRetries
       THEN /\ pc' = "cooldown"
            /\ UNCHANGED << outcome, returned >>
       ELSE /\ pc' = "done"
            /\ outcome' = "raised"
            /\ returned' = None

\* a return statement of the flow function
FlowReturn(stats) ==
    /\ pipeline_stats' = stats
    /\ pc' = "done"
    /\ outcome' = "returned"
    /\ returned' = Some(stats)

\* @flow(retries=1, retry_delay_seconds=300)
FlowRetry ==
    /\ pc = "cooldown"
    /\ now' = now + FlowRetryDelay
    /\ flow_run' = flow_run + 1
    /\ pc' = "pending"
    /\ UNCHANGED << callerVars, cacheVars, inputVars, auxVars, pipeline_stats, stages, task_run,
                    dataVars, sessionVars, exportVars, histVars >>


(***************************************************************************)
(* Step 1: scrape_tab_racing_data(target_date).                            *)
(***************************************************************************)
\* a flow without the "if not raw_data" return
AfterScrape_no_empty_check(data) ==
    /\ pc' = "validate"
    /\ UNCHANGED << pipeline_stats, outcome, returned >>

\* the flow after the fetch stage has handed back its records
AfterScrape(data) ==
    IF data = << >>
    THEN FlowReturn(Update(pipeline_stats, [status |-> "no_data"]))
    ELSE /\ pc' = "validate"
         /\ UNCHANGED << pipeline_stats, outcome, returned >>

\* the cache holds an unexpired result for this date: the task body is skipped
ScrapeCached ==
    /\ pc = "fetch"
    /\ CacheHit(scrape_cache, target_date, now) # {}
    /\ \E e \in CacheHit(scrape_cache, target_date, now) :
           /\ raw_data' = e.value
           /\ AfterScrape(e.value)
    /\ stages' = Append(stages, "fetch")
    /\ from_cache' = from_cache \cup {"fetch"}
    /\ UNCHANGED << invocations, now, cacheVars, inputVars, auxVars, flow_run, task_run,
                    is_valid, processed_df, sessionVars, exportVars, executed >>

\* no usable entry: the task body starts and opens a TABScraper session.
\* The failures followed here are the requests.exceptions.RequestException
\* of the session's requests; make_request catches them all, so the body
\* returns and the retries of the task are not used.
ScrapeBegin ==
    /\ pc = "fetch"
    /\ CacheHit(scrape_cache, target_date, now) = {}
    /\ stages' = Append(stages, "fetch")
    /\ executed' = executed \cup {"fetch"}
    /\ task_run' = 0
    /\ request_count' = 0
    /\ failed_requests' = 0
    /\ attempt' = 0
    /\ sleeps' = << >>
    /\ races_data' = << >>
    /\ request_result' = "none"
    /\ pc' = "robots"
    /\ UNCHANGED << callerVars, now, cacheVars, inputVars, auxVars, flow_run, pipeline_stats,
                    dataVars, exportVars, from_cache >>

\* what reading the source's robots.txt can give
RobotsAnswers == { "allows", "disallows", "unreadable" }

respect_robots == TRUE      \* TABScraper: ScrapingConfig(respect_robots=True)

check_robots_txt(robots) ==
    IF ~respect_robots THEN TRUE
    ELSE IF robots = "unreadable" THEN TRUE     \* assume allowed if we can't check
    ELSE robots = "allows"

\* make_request, the robots.txt gate.  A refusal makes make_request return
\* None, and scrape_daily_races return [].
CheckRobots(robots) ==
    /\ pc = "robots"
    /\ IF check_robots_txt(robots)
       THEN /\ attempt' = 0
            /\ pc' = "request"
            /\ UNCHANGED << races_data, request_result >>
       ELSE /\ request_result' = "disallowed"
            /\ races_data' = << >>
            /\ pc' = "close"
            /\ UNCHANGED attempt
    /\ UNCHANGED << callerVars, now, cacheVars, inputVars, auxVars, flow_run, pipeline_stats,
                    stages, task_run, dataVars, request_count, failed_requests, sleeps,
                    exportVars, histVars >>

\* _wait_between_requests sleeps before every request but the session's
\* first, for a time drawn from [base_delay, max_delay]
Delays == { base_delay, max_delay }

_wait_between_requests(delay) == IF request_count > 0 THEN << delay >> ELSE << >>

\* the exponential backoff after the failed pass numbered attempt
wait_time_flat(n) == base_delay

wait_time(n) == (2 ^ n) * base_delay

\* one pass of the loop of make_request in which session.get returns a
\* response that raise_for_status accepts; scrape_daily_races parses it
RequestOk(kind, delay) ==
    /\ pc = "request"
    /\ sleeps' = sleeps \o _wait_between_requests(delay)
    /\ request_count' = request_count + 1
    /\ request_result' = "response"
    /\ races_data' = ParsePage(kind, target_date)
    /\ pc' = "close"
    /\ UNCHANGED << callerVars, now, cacheVars, inputVars, auxVars, flow_run, pipeline_stats,
                    stages, task_run, dataVars, failed_requests, attempt, exportVars,
                    histVars >>

\* one pass in which a requests.exceptions.RequestException is raised:
\* by session.get ("connection") or by raise_for_status ("http")
RequestErrors == { "connection", "http" }

RequestFail(err, delay) ==
    /\ pc = "request"
    /\ request_count' = IF err = "http" THEN request_count + 1 ELSE request_count
    /\ failed_requests' = failed_requests + 1
    /\ IF attempt < max_retries - 1
       THEN \* exponential backoff, then the next pass
            /\ sleeps' = sleeps \o _wait_between_requests(delay)
                                \o << wait_time(attempt) >>
            /\ attempt' = attempt + 1
            /\ UNCHANGED << pc, races_data, request_result >>
       ELSE \* "Failed to fetch ... after max_retries attempts": return None,
            \* and scrape_daily_races returns []
            /\ sleeps' = sleeps \o _wait_between_requests(delay)
            /\ request_result' = "exhausted"
            /\ races_data' = << >>
            /\ pc' = "close"
            /\ UNCHANGED attempt
    /\ UNCHANGED << callerVars, now, cacheVars, inputVars, auxVars, flow_run, pipeline_stats,
                    stages, task_run, dataVars, exportVars, histVars >>

\* scrape_daily_races has returned: the with block closes the session, the
\* task completes, Prefect caches its result and the flow goes on
ScrapeClose ==
    /\ pc = "close"
    /\ scrape_cache' = CacheStore(scrape_cache, target_date, races_data, now,
                                  ScrapeCacheExpiration)
    /\ raw_data' = races_data
    /\ AfterScrape(races_data)
    /\ request_count' = 0
    /\ failed_requests' = 0
    /\ attempt' = 0
    /\ sleeps' = << >>
    /\ races_data' = << >>
    /\ UNCHANGED << invocations, now, transform_cache, inputVars, auxVars, flow_run, stages,
                    task_run, is_valid, processed_df, request_result, exportVars,
                    histVars >>

(***************************************************************************)
(* Step 2: validate_racing_data(raw_data).                                 *)
(***************************************************************************)
\* a task that logs the errors of the verdict and passes the batch all the same
validate_racing_data_lenient(raw, t, compares) == Return(TRUE)

\* a task that raises on an invalid batch, which Prefect takes as a failure
validate_racing_data_raising(raw, t, compares) ==
    LET validation_result == validate_scraped_data(raw, t, compares)
    IN IF ~validation_result.is_valid THEN Raise("Data validation failed")
       ELSE Return(TRUE)

\* body of the task: False for an invalid batch, True otherwise
validate_racing_data(raw, t, compares) ==
    LET validation_result == validate_scraped_data(raw, t, compares)
    IN IF ~validation_result.is_valid THEN Return(FALSE) ELSE Return(TRUE)

Validate ==
    /\ pc = "validate"
    /\ stages' = IF task_run = 0 THEN Append(stages, "validate") ELSE stages
    /\ executed' = executed \cup {"validate"}
    /\ LET r == validate_racing_data(raw_data, now, text_compares)
       IN IF r.raised
          THEN \* @task(retries=2, retry_delay_seconds=30)
               IF task_run < ValidateTaskRetries
               THEN /\ task_run' = task_run + 1
                    /\ now' = now + ValidateRetryDelay
                    /\ UNCHANGED << pc, pipeline_stats, outcome, returned, is_valid >>
               ELSE /\ FlowFail(r.value[1])
                    /\ UNCHANGED << now, task_run, is_valid >>
          ELSE /\ is_valid' = Some(r.value[1])
               /\ task_run' = 0
               /\ now' = now
               /\ IF ~r.value[1]
                  THEN FlowReturn(Update(pipeline_stats,
                                         [status |-> "validation_failed"]))
                  ELSE /\ pc' = "transform"
                       /\ UNCHANGED << pipeline_stats, outcome, returned >>
    /\ UNCHANGED << invocations, cacheVars, inputVars, auxVars, flow_run, raw_data, processed_df,
                    sessionVars, exportVars, from_cache >>

(***************************************************************************)
(* Step 3: transform_racing_data(raw_data), cached by its argument.        *)
(***************************************************************************)
TransformCached ==
    /\ pc = "transform"
    /\ CacheHit(transform_cache, raw_data, now) # {}
    /\ \E e \in CacheHit(transform_cache, raw_data, now) :
           processed_df' = Some(e.value)
    /\ stages' = Append(stages, "transform")
    /\ from_cache' = from_cache \cup {"transform"}
    /\ pc' = "export"
    /\ UNCHANGED << callerVars, now, cacheVars, inputVars, auxVars, flow_run, pipeline_stats,
                    task_run, raw_data, is_valid, sessionVars, exportVars, executed >>

\* the task has no retries: an exception fails the flow
TransformRun(evaluates) ==
    /\ pc = "transform"
    /\ CacheHit(transform_cache, raw_data, now) = {}
    /\ stages' = Append(stages, "transform")
    /\ executed' = executed \cup {"transform"}
    /\ LET r == transform_racing_data(raw_data, evaluates)
       IN IF r.raised
          THEN /\ FlowFail(r.value[1])
               /\ UNCHANGED << transform_cache, processed_df >>
          ELSE /\ transform_cache' = CacheStore(transform_cache, raw_data, r.value[1],
                                                now, TransformCacheExpiration)
               /\ processed_df' = Some(r.value[1])
               /\ pc' = "export"
               /\ UNCHANGED << pipeline_stats, outcome, returned >>
    /\ UNCHANGED << invocations, now, scrape_cache, inputVars, auxVars, flow_run, task_run,
                    raw_data, is_valid, sessionVars, exportVars, from_cache >>

(***************************************************************************)
(* Step 4: export_processed_data(processed_df, date_str, export_formats).  *)
(***************************************************************************)
\* DataExporter.export_parquet, export_csv, export_daily_summary_report:
\* the path when the write succeeds; a failed write is logged and re-raised
export_parquet(write_ok) ==
    IF write_ok THEN Return("parquet path") ELSE Raise("Parquet export failed")

export_csv(write_ok) ==
    IF write_ok THEN Return("csv path") ELSE Raise("CSV export failed")

export_daily_summary_report(write_ok) ==
    IF write_ok THEN Return("summary path") ELSE Raise("Daily summary export failed")

\* the task body starts: a new exporter and an empty export_paths
ExportBegin ==
    /\ pc = "export"
    /\ stages' = Append(stages, "export")
    /\ executed' = executed \cup {"export"}
    /\ task_run' = 0
    /\ export_paths' = {}
    /\ attempted' = {}
    /\ write_failed' = {}
    /\ written' = {}
    /\ pc' = "export_parquet"
    /\ UNCHANGED << callerVars, now, cacheVars, inputVars, auxVars, flow_run, pipeline_stats,
                    dataVars, sessionVars, from_cache >>

\* one "if fmt in export_formats" block of the task body; r is what the
\* exporter call gives.  An exception leaves the task body: @task(retries=2)
\* runs the body again from its first line, then the flow fails.
ExportStep(fmt, r, next) ==
    /\ IF fmt \notin export_formats
       THEN /\ pc' = next
            /\ UNCHANGED << exportVars, task_run, pipeline_stats, outcome, returned >>
       ELSE /\ attempted' = attempted \cup {fmt}
            /\ IF ~r.raised
               THEN /\ export_paths' = export_paths \cup {fmt}
                    /\ written' = written \cup {fmt}
                    /\ pc' = next
                    /\ UNCHANGED << write_failed, task_run, pipeline_stats, outcome,
                                    returned >>
               ELSE /\ write_failed' = write_failed \cup {fmt}
                    /\ UNCHANGED written
                    /\ IF task_run < ExportTaskRetries
                       THEN /\ task_run' = task_run + 1
                            /\ export_paths' = {}
                            /\ pc' = "export_parquet"
                            /\ UNCHANGED << pipeline_stats, outcome, returned >>
                       ELSE /\ FlowFail(r.value[1])
                            /\ UNCHANGED << task_run, export_paths >>
    /\ UNCHANGED << invocations, now, cacheVars, inputVars, auxVars, flow_run, stages, dataVars,
                    sessionVars, histVars >>

ExportParquet(write_ok) ==
    /\ pc = "export_parquet"
    /\ ExportStep("parquet", export_parquet(write_ok), "export_csv")

ExportCsv(write_ok) ==
    /\ pc = "export_csv"
    /\ ExportStep("csv", export_csv(write_ok), "export_summary")

ExportSummary(write_ok) ==
    /\ pc = "export_summary"
    /\ ExportStep("summary", export_daily_summary_report(write_ok), "metrics")

(***************************************************************************)
(* Step 5: create_data_quality_metrics(processed_df), then the summary.    *)
(***************************************************************************)
create_data_quality_metrics(df, computed) ==
    IF computed THEN Return([total_records |-> df.height])
    ELSE Raise("Quality metrics generation failed")

Metrics(computed) ==
    /\ pc = "metrics"
    /\ stages' = Append(stages, "metrics")
    /\ executed' = executed \cup {"metrics"}
    /\ LET r == create_data_quality_metrics(processed_df[1], computed)
       IN IF r.raised
          THEN FlowFail(r.value[1])
          ELSE FlowReturn(Update(pipeline_stats,
                                 [status |-> "success",
                                  records_processed |-> processed_df[1].height,
                                  export_paths |-> export_paths,
                                  quality_metrics |-> r.value[1]]))
    /\ UNCHANGED << invocations, now, cacheVars, inputVars, auxVars, flow_run, task_run, dataVars,
                    sessionVars, exportVars, from_cache >>

(***************************************************************************)
(* The specification.                                                      *)
(***************************************************************************)
Next ==
    \/ \E d \in Dates, fmts \in FormatChoices, gap \in Gaps : Invoke(d, fmts, gap)
    \/ FlowStart
    \/ FlowRetry
    \/ ScrapeCached
    \/ ScrapeBegin
    \/ \E robots \in RobotsAnswers : CheckRobots(robots)
    \/ \E kind \in PageKinds, delay \in Delays : RequestOk(kind, delay)
    \/ \E err \in RequestErrors, delay \in Delays : RequestFail(err, delay)
    \/ ScrapeClose
    \/ Validate
    \/ TransformCached
    \/ \E evaluates \in BOOLEAN : TransformRun(evaluates)
    \/ ExportBegin
    \/ \E ok \in BOOLEAN : ExportParquet(ok)
    \/ \E ok \in BOOLEAN : ExportCsv(ok)
    \/ \E ok \in BOOLEAN : ExportSummary(ok)
    \/ \E ok \in BOOLEAN : Metrics(ok)

allVars == << vars, auxVars >>

Spec == Init /\ [][Next]_allVars


(***************************************************************************)
(* Properties.                                                             *)
(***************************************************************************)
Range(seq) == { seq[i] : i \in 1..Len(seq) }

IsPrefix(s, t) == Len(s) <= Len(t) /\ \A i \in 1..Len(s) : s[i] = t[i]

StageOrder == << "fetch", "validate", "transform", "export", "metrics" >>

StatusOf(d) == IF "status" \in DOMAIN d THEN d.status ELSE "unset"

InScraper == pc \in {"robots", "request", "close"}
InExport == pc \in {"export_parquet", "export_csv", "export_summary"}

\* the fetch stage of this execution has handed its records to the flow
FetchReturned == stages # << >> /\ ~InScraper

\* C1: within one execution of the flow the stages are called in the order
\* fetch, validate, transform, export (then the quality metrics), none
\* skipped or repeated; validate is called only on a non-empty batch,
\* transform only on a batch whose verdict is valid, warnings or not, and
\* export only on a dataset that transform produced.
C1_StagesSequential ==
    /\ IsPrefix(stages, StageOrder)
    /\ InScraper => stages = << "fetch" >>
    /\ pc = "validate" => FetchReturned
    /\ "validate" \in Range(stages) => raw_data # << >>
    /\ "transform" \in Range(stages) =>
           /\ is_valid = Some(TRUE)
           /\ validate_scraped_data(raw_data, now, text_compares).is_valid
    /\ "export" \in Range(stages) => processed_df # None
    /\ InExport => "export" \in Range(stages)
    /\ StatusOf(pipeline_stats) = "success" => stages = StageOrder

\* a run that went through every stage on a batch that carries warnings
\* (a future date, horse data that is not validated)
C1_Witness ==
    /\ pc = "done"
    /\ StatusOf(pipeline_stats) = "success"
    /\ stages = StageOrder
    /\ Len(validate_scraped_data(raw_data, now, text_compares).warnings) = 2

\* C2: when the fetch stage hands back an empty list, the run is over with
\* status no_data, no later stage was called, and the summary has no
\* records_processed.
C2_EmptyFetchEndsNoData ==
    (FetchReturned /\ raw_data = << >>) =>
        /\ pc = "done"
        /\ outcome = "returned"
        /\ returned = Some(pipeline_stats)
        /\ StatusOf(pipeline_stats) = "no_data"
        /\ stages = << "fetch" >>
        /\ executed \subseteq {"fetch"}
        /\ \/ "records_processed" \notin DOMAIN pipeline_stats
           \/ pipeline_stats.records_processed = 0

\* the source answered with a page that holds no race
C2_Witness ==
    /\ pc = "done"
    /\ request_result = "response"
    /\ raw_data = << >>
    /\ StatusOf(pipeline_stats) = "no_data"

\* C3: when all max_retries request attempts fail, the run ends failed with
\* the error recorded and failed_requests = 3.
C3_ExhaustedFetchFails ==
    request_result = "exhausted" =>
        \/ pc = "close" /\ failed_requests = 3
        \/ /\ pc \in {"cooldown", "done"}
           /\ StatusOf(pipeline_stats) = "failed"
           /\ "error" \in DOMAIN pipeline_stats

\* C4: an invalid verdict ends the run with status validation_failed;
\* neither transform nor export is called, the validation task is not run
\* again and the flow returns instead of raising, so it is not retried.
C4_InvalidBatchEndsRun ==
    ("validate" \in Range(stages)
         /\ ~validate_scraped_data(raw_data, now, text_compares).is_valid) =>
        /\ pc = "done"
        /\ outcome = "returned"
        /\ returned = Some(pipeline_stats)
        /\ StatusOf(pipeline_stats) = "validation_failed"
        /\ "error" \notin DOMAIN pipeline_stats
        /\ is_valid = Some(FALSE)
        /\ stages = << "fetch", "validate" >>
        /\ task_run = 0
        /\ executed \cap {"transform", "export", "metrics"} = {}

C4_Witness ==
    /\ pc = "done"
    /\ is_valid = Some(FALSE)
    /\ StatusOf(pipeline_stats) = "validation_failed"

\* C5: a run whose export stage saw one format fail and another succeed
\* ends with status success and an export manifest of exactly the formats
\* that were written.
C5_PartialExportIsSuccess ==
    (pc = "done" /\ "export" \in Range(stages)
         /\ write_failed # {} /\ written \ write_failed # {}) =>
        /\ outcome = "returned"
        /\ StatusOf(pipeline_stats) = "success"
        /\ pipeline_stats.export_paths = written

\* C6: once the export stage is over, every requested format has been
\* attempted, whatever failed.
C6_ExportFailureDoesNotCascade ==
    ("export" \in Range(stages) /\ ~InExport /\ pc # "export") =>
        attempted = export_formats

\* C7: every invocation hands its caller a summary with one of the four
\* statuses, and a failed execution's summary says failed and carries the
\* error.
C7_CallerGetsSummary ==
    pc = "done" =>
        /\ outcome = "returned"
        /\ returned # None
        /\ StatusOf(returned[1]) \in Statuses
        /\ StatusOf(returned[1]) = "failed" <=> "error" \in DOMAIN returned[1]

\* C8: a request that robots.txt forbids is not sent and not retried, and
\* the run ends failed.
C8_PolicyViolationFails ==
    request_result = "disallowed" =>
        /\ request_count = 0
        /\ failed_requests = 0
        /\ sleeps = << >>
        /\ \/ pc = "close"
           \/ pc \in {"cooldown", "done"} /\ StatusOf(pipeline_stats) = "failed"


\* an execution of the flow function is under way or waiting to be retried
Running == pc \notin {"idle", "done"}

\* how far the invocation is from its end at the latest: the executions
\* left, then the position within the execution
StepsLeft ==
    CASE pc = "pending"        -> 60
      [] pc = "fetch"          -> 59
      [] pc = "robots"         -> 58
      [] pc = "request"        -> 57 - attempt
      [] pc = "close"          -> 54
      [] pc = "validate"       -> 50 - task_run
      [] pc = "transform"      -> 45
      [] pc = "export"         -> 44
      [] pc = "export_parquet" -> 43 - 4 * task_run
      [] pc = "export_csv"     -> 42 - 4 * task_run
      [] pc = "export_summary" -> 41 - 4 * task_run
      [] pc = "metrics"        -> 30
      [] pc = "cooldown"       -> 1
      [] OTHER                 -> 0

Rank == IF Running THEN (2 - flow_run) * 100 + StepsLeft ELSE 0

\* C9: an execution that fails is followed, after a cooldown of 300 s, by
\* one more execution that starts again from PENDING with a new summary; the
\* flow function is executed at most twice per invocation, a second failure
\* is final, and every step of a running invocation brings it closer to its
\* end, so that no invocation goes on for ever.
C9_BoundedWholeRunRetry ==
    /\ [](/\ flow_run <= 2
          /\ Running => Rank > 0
          /\ pc = "cooldown" =>
                 flow_run = 1 /\ StatusOf(pipeline_stats) = "failed")
    /\ [][/\ Running => Rank' < Rank
          /\ pc = "cooldown" =>
                 /\ pc' = "pending"
                 /\ now' = now + 300
                 /\ flow_run' = flow_run + 1
          /\ pc = "pending" =>
                 /\ pc' = "fetch"
                 /\ stages' = << >>
                 /\ executed' = {}
                 /\ StatusOf(pipeline_stats') = "unset"
          /\ (StatusOf(pipeline_stats) # "failed"
                  /\ StatusOf(pipeline_stats') = "failed") =>
                 \/ flow_run = 1 /\ pc' = "cooldown"
                 \/ flow_run = 2 /\ pc' = "done" /\ outcome' = "raised"
         ]_allVars

\* an invocation that is over after its second execution
C9_Witness == pc = "done" /\ flow_run = 2

\* the unexpired entries of a cache for a key, by the time they were stored
Fresh(cache, key, ttl) == { e \in cache : e.key = key /\ now < e.stored + ttl }

\* C10: a cache entry is keyed by the task's argument and lives 3600 s
\* (fetch) or 21600 s (transform); while an entry for its argument is alive
\* the stage hands back the stored result and its body does not run, and
\* when there is none, or it has expired, the body runs again.
C10_CachedWithinWindow ==
    /\ [](/\ \A e \in scrape_cache :
                 /\ e.key \in Dates
                 /\ e.expiration = e.stored + 3600
                 /\ \A f \in scrape_cache : f.key = e.key => f = e
          /\ \A e \in transform_cache :
                 /\ e.expiration = e.stored + 21600
                 /\ transform_racing_data(e.key, TRUE) = Return(e.value)
                 /\ \A f \in transform_cache : f.key = e.key => f = e)
    /\ [][/\ pc = "fetch" =>
                 IF Fresh(scrape_cache, target_date, 3600) # {}
                 THEN /\ \E e \in Fresh(scrape_cache, target_date, 3600) :
                             raw_data' = e.value
                      /\ pc' \in {"validate", "done"}
                      /\ "fetch" \in from_cache'
                      /\ UNCHANGED << executed, scrape_cache >>
                 ELSE /\ pc' = "robots"
                      /\ "fetch" \in executed'
                      /\ UNCHANGED from_cache
          /\ pc = "transform" =>
                 IF Fresh(transform_cache, raw_data, 21600) # {}
                 THEN /\ \E e \in Fresh(transform_cache, raw_data, 21600) :
                             processed_df' = Some(e.value)
                      /\ pc' = "export"
                      /\ "transform" \in from_cache'
                      /\ UNCHANGED << executed, transform_cache >>
                 ELSE /\ "transform" \in executed'
                      /\ UNCHANGED from_cache
         ]_allVars

\* a later invocation for a date whose results are still cached
C10_Witness ==
    /\ invocations >= 2
    /\ flow_run = 1
    /\ from_cache = {"fetch", "transform"}
    /\ executed \cap {"fetch", "transform"} = {}


(***************************************************************************)
(* Two concurrent runs of scrape_tab_racing_data for one date over one     *)
(* cache.  The decorator gives the task a cache key and an expiration and  *)
(* nothing else: a task run looks the key up when it starts, runs its body *)
(* on a miss, and stores the result when the body has returned.  The body  *)
(* is a scraper session of several seconds, so the lookup and the store of *)
(* one run are separate steps between which the other run can take its     *)
(* own.                                                                    *)
(***************************************************************************)
\* a flow run for date d reaches its fetch stage
TaskSubmit(r, d) ==
    /\ run_pc[r] = "idle"
    /\ run_pc' = [run_pc EXCEPT ![r] = "lookup"]
    /\ target_date' = d
    /\ \A q \in Runs : run_pc[q] # "idle" => d = target_date
    /\ UNCHANGED << run_result, shared_cache, body_runs, cache_writers >>
    /\ UNCHANGED << callerVars, now, cacheVars, export_formats, text_compares, pc,
                    flow_run, pipeline_stats, stages, task_run, dataVars, sessionVars,
                    exportVars, histVars, notConc >>

\* the task run finds an unexpired entry for its argument and returns it
TaskCacheHit(r) ==
    /\ run_pc[r] = "lookup"
    /\ CacheHit(shared_cache, target_date, now) # {}
    /\ \E e \in CacheHit(shared_cache, target_date, now) :
           run_result' = [run_result EXCEPT ![r] = Some(e.value)]
    /\ run_pc' = [run_pc EXCEPT ![r] = "done"]
    /\ UNCHANGED << shared_cache, body_runs, cache_writers, vars, notConc >>

\* the task run finds none and starts the body
TaskCacheMiss(r) ==
    /\ run_pc[r] = "lookup"
    /\ CacheHit(shared_cache, target_date, now) = {}
    /\ body_runs' = body_runs \cup {r}
    /\ run_pc' = [run_pc EXCEPT ![r] = "body"]
    /\ UNCHANGED << run_result, shared_cache, cache_writers, vars, notConc >>

\* the body returns what the session scraped
TaskBody(r, kind) ==
    /\ run_pc[r] = "body"
    /\ run_result' = [run_result EXCEPT ![r] = Some(ParsePage(kind, target_date))]
    /\ run_pc' = [run_pc EXCEPT ![r] = "store"]
    /\ UNCHANGED << shared_cache, body_runs, cache_writers, vars, notConc >>

\* the completed task run stores its result under its key
TaskStore(r) ==
    /\ run_pc[r] = "store"
    /\ shared_cache' = CacheStore(shared_cache, target_date, run_result[r][1], now,
                                   ScrapeCacheExpiration)
    /\ cache_writers' = Append(cache_writers, r)
    /\ run_pc' = [run_pc EXCEPT ![r] = "done"]
    /\ UNCHANGED << run_result, body_runs, vars, notConc >>

InitConcurrent == FlowParked /\ AuxParked

NextConcurrent ==
    \/ \E r \in Runs, d \in Dates : TaskSubmit(r, d)
    \/ \E r \in Runs : TaskCacheHit(r)
    \/ \E r \in Runs : TaskCacheMiss(r)
    \/ \E r \in Runs, kind \in PageKinds : TaskBody(r, kind)
    \/ \E r \in Runs : TaskStore(r)

SpecConcurrent == InitConcurrent /\ [][NextConcurrent]_allVars

\* C11: of two concurrent runs that ask for the same cached stage result,
\* at most one runs the body and writes the entry for the key; the other
\* one waits for it or reuses it.
C11_AtMostOneWriterPerKey ==
    /\ Cardinality(body_runs) <= 1
    /\ Len(cache_writers) <= 1

(***************************************************************************)
(* DataValidator.validate_scraped_data called on its own.  The batches are *)
(* lists of one or two records; a record has or lacks each of the keys the *)
(* validator reads, and where it has one the value is null, ordinary or    *)
(* unusual.                                                                *)
(***************************************************************************)
\* a record's entry for one key: none when the record lacks the key
Entry(key, cells) == [k \in { key : c \in cells } |-> CHOOSE c \in cells : TRUE]

ValRecord(date, race_number, track, source, horses) ==
    Entry("date", date) @@ Entry("race_number", race_number) @@ Entry("track", track)
    @@ Entry("source", source) @@ Entry("horses", horses)
    @@ [race_time |-> Some("14:30"), distance |-> Some("1200"), scraped_at |-> Some("ts")]

ValRecords ==
    { ValRecord(date, race_number, track, source, horses) :
          date \in {{}, {None}, {Some(0)}, {Some(2)}},
          race_number \in {{}, {Some(1)}, {Some(16)}, {Text(16)}},
          track \in {{}, {Some("")}, {Some("Ellerslie")}},
          source \in {{}, {Some("tab_nz")}},
          horses \in {{}, {Some(<< >>)}} }

\* the records a second position of the batch holds
SecondRecords ==
    { ValRecord({Some(0)}, {Some(1)}, {Some("Ellerslie")}, {Some("tab_nz")}, {Some(<< >>)}),
      ValRecord({Some(0)}, {Text(1)}, {Some("Ellerslie")}, {Some("tab_nz")}, {Some(<< >>)}),
      ValRecord({Some(0)}, {Some(1)}, {Some("Ellerslie")}, {}, {}),
      ValRecord({Some(2)}, {Some(0)}, {None}, {Some("tab_nz")}, {}) }

ValBatches ==
    {<< >>} \cup { << r >> : r \in ValRecords }
    \cup { << r, q >> : r \in ValRecords, q \in SecondRecords }

\* the clocks of the calls: on day 0, on day 1, on day 3
ValClocks == {0, SecondsPerDay, 3 * SecondsPerDay}

MaxCalls == 2

ValidateCall(t) ==
    /\ Len(val_calls) < MaxCalls
    /\ \A i \in DOMAIN val_calls : val_calls[i].at <= t
    /\ val_calls' = Append(val_calls,
                           [at |-> t, result |-> validate_scraped_data(val_batch, t, val_compares)])
    /\ UNCHANGED << val_batch, val_compares, vars, notVal >>

InitValidate ==
    /\ FlowParked
    /\ BackParked
    /\ SessParked
    /\ MonParked
    /\ ConcParked
    /\ ParseParked
    /\ XfParked
    /\ ExpParked
    /\ AnomParked
    /\ FreshParked
    /\ val_batch \in ValBatches
    /\ val_compares \in BOOLEAN
    /\ val_calls = << >>

NextValidate == \E t \in ValClocks : ValidateCall(t)

SpecValidate == InitValidate /\ [][NextValidate]_allVars

\* the results of the calls made so far
ValResults == { val_calls[i].result : i \in DOMAIN val_calls }

\* C12: a validation result is valid exactly when it carries no error
C12_ValidIffNoErrors ==
    \A res \in ValResults : res.is_valid <=> res.errors = << >>

\* a batch with a date in the future at the call and nothing wrong: the
\* result carries a warning, no error, and is valid
C12_Witness ==
    \E res \in ValResults :
        /\ res.is_valid
        /\ res.errors = << >>
        /\ \E i \in DOMAIN res.warnings : res.warnings[i].msg = "records have future dates"

\* the required fields no record of the batch has
MissingFromBatch ==
    { f \in {"date", "race_number", "track", "source"} : f \notin Columns(val_batch) }

\* the result is invalid and one of its errors names every field of fields
NamesMissing(res, fields) ==
    /\ ~res.is_valid
    /\ \E i \in DOMAIN res.errors :
           /\ res.errors[i].msg = "Missing required fields"
           /\ \A f \in fields : \E j \in DOMAIN res.errors[i].arg : res.errors[i].arg[j] = f

Regular(raw) ==
    /\ raw # << >>
    /\ Framable(raw)
    /\ \A f \in {"date", "race_number", "track", "source"} : f \in Columns(raw)
    /\ \A i \in DOMAIN raw :
           /\ Cell(raw[i], "date") # None
           /\ Cell(raw[i], "track") # None
           /\ Cell(raw[i], "track") # Some("")

\* a race number outside 1..15, or a date after the day of the clock t
Unusual(raw, t) ==
    \E i \in DOMAIN raw :
        \/ /\ Cell(raw[i], "race_number") # None
           /\ \/ Cell(raw[i], "race_number")[1] < 1
              \/ Cell(raw[i], "race_number")[1] > 15
        \/ /\ Cell(raw[i], "date") # None
           /\ Cell(raw[i], "date")[1] > Today(t)

\* C14: race numbers outside 1..15 and dates in the future give warnings
\* and never errors, so a batch with only such irregularities is valid and
\* carries a warning; a null date or a null or empty track gives an error
C14_UnusualValuesOnlyWarn ==
    \A k \in DOMAIN val_calls :
        /\ (Regular(val_batch) /\ Unusual(val_batch, val_calls[k].at))
               => /\ val_calls[k].result.is_valid
                  /\ val_calls[k].result.warnings # << >>
        /\ (/\ val_batch # << >>
            /\ \E i \in DOMAIN val_batch :
                   \/ Cell(val_batch[i], "date") = None
                   \/ "track" \in Columns(val_batch)
                      /\ Cell(val_batch[i], "track") \in {None, Some("")})
               => /\ ~val_calls[k].result.is_valid
                  /\ val_calls[k].result.errors # << >>

\* C15: two calls on the same batch return the same result (is_valid,
\* errors, warnings and stats), whatever the clock at each call
C15_SameResultEachCall ==
    \A i, j \in DOMAIN val_calls : val_calls[i].result = val_calls[j].result

(***************************************************************************)
(* RaceDataTransformer._parse_race_time on strings: a string is the        *)
(* sequence of its characters.                                             *)
(***************************************************************************)
Chars == {"0", "1", "3", "-", ":", "a", " "}

DigitChars == {"0", "1", "3"}

MaxLen == 4

RECURSIVE Strings(_)
Strings(n) ==
    IF n = 0 THEN {<< >>}
    ELSE Strings(n - 1) \cup { Append(str, c) : str \in Strings(n - 1), c \in Chars }

\* str.split(':')
RECURSIVE split(_)
split(str) ==
    IF str = << >> THEN << << >> >>
    ELSE LET rest == split(Tail(str))
         IN IF Head(str) = ":"
            THEN << << >> >> \o rest
            ELSE << << Head(str) >> \o rest[1] >> \o Tail(rest)

RECURSIVE lstrip(_)
lstrip(str) == IF str # << >> /\ Head(str) = " " THEN lstrip(Tail(str)) ELSE str

RECURSIVE rstrip(_)
rstrip(str) ==
    IF str # << >> /\ str[Len(str)] = " " THEN rstrip(SubSeq(str, 1, Len(str) - 1)) ELSE str

DigitValue(c) == CASE c = "0" -> 0 [] c = "1" -> 1 [] c = "3" -> 3

RECURSIVE Decimal(_)
Decimal(digits) ==
    IF digits = << >> THEN 0
    ELSE Decimal(SubSeq(digits, 1, Len(digits) - 1)) * 10 + DigitValue(digits[Len(digits)])

\* int(str): blanks around are dropped, one sign may lead, digits follow;
\* None stands for ValueError
int(str) ==
    LET body == rstrip(lstrip(str))
        signed == body # << >> /\ Head(body) \in {"-", "+"}
        digits == IF signed THEN Tail(body) ELSE body
    IN IF digits = << >> \/ \E i \in DOMAIN digits : digits[i] \notin DigitChars
       THEN None
       ELSE Some(IF Head(body) = "-" THEN 0 - Decimal(digits) ELSE Decimal(digits))

\* every exception of the body is caught and answered with 0
_parse_race_time(str) ==
    IF \E i \in DOMAIN str : str[i] = ":"
    THEN LET parts == split(str)
         IN IF Len(parts) # 2 THEN 0
            ELSE IF int(parts[1]) = None \/ int(parts[2]) = None THEN 0
            ELSE int(parts[1])[1] * 60 + int(parts[2])[1]
    ELSE 0

ParseCall ==
    /\ race_minutes = None
    /\ race_minutes' = Some(_parse_race_time(time_str))
    /\ UNCHANGED << time_str, vars, notParse >>

InitParse ==
    /\ FlowParked
    /\ BackParked
    /\ SessParked
    /\ MonParked
    /\ ConcParked
    /\ ValParked
    /\ XfParked
    /\ ExpParked
    /\ AnomParked
    /\ FreshParked
    /\ time_str \in Strings(MaxLen)
    /\ race_minutes = None

NextParse == ParseCall

SpecParse == InitParse /\ [][NextParse]_allVars

\* C16: for every string the time parser returns a non-negative integer
C16_ParsedTimeNonNegative ==
    race_minutes # None => race_minutes[1] >= 0

(***************************************************************************)
(* transform_racing_data called on batches of every column set over the    *)
(* columns the steps read, two of the columns they add, and two others.    *)
(***************************************************************************)
InputColumns ==
    {"date", "track", "source", "race_time", "scraped_at",
     "race_date", "field_size", "race_number", "weather"}

XfCall(evaluates) ==
    /\ xf_result = None
    /\ xf_result' = Some(transform_racing_data(xf_raw, evaluates))
    /\ UNCHANGED << xf_raw, vars, notXf >>

InitTransform ==
    /\ FlowParked
    /\ BackParked
    /\ SessParked
    /\ MonParked
    /\ ConcParked
    /\ ValParked
    /\ ParseParked
    /\ ExpParked
    /\ AnomParked
    /\ FreshParked
    /\ xf_raw \in { << [c \in cols |-> Some("x")] >> : cols \in SUBSET InputColumns }
    /\ xf_result = None

NextTransform == \E evaluates \in BOOLEAN : XfCall(evaluates)

SpecTransform == InitTransform /\ [][NextTransform]_allVars

\* C17: when the transform succeeds, every column of its input is a column
\* of its output
C17_TransformKeepsColumns ==
    (xf_result # None /\ ~xf_result[1].raised)
        => Columns(xf_raw) \subseteq xf_result[1].value[1].columns

\* a successful transform of a batch with columns the steps neither read
\* nor add, and with one they add
C17_Witness ==
    /\ xf_result # None
    /\ ~xf_result[1].raised
    /\ {"weather", "race_number", "field_size"} \subseteq Columns(xf_raw)
    /\ {"weather", "race_number", "field_size", "race_minutes", "track_type"}
           \subseteq xf_result[1].value[1].columns

(***************************************************************************)
(* One DataExporter and the export calls made on it.  Each call is logged  *)
(* with its format, the height of the frame handed in, whether it returned *)
(* or raised, and export_stats before and after it.                        *)
(***************************************************************************)
NewExportStats ==
    [total_exports |-> 0, total_records |-> 0, formats_used |-> {}, last_export |-> None]

_update_stats(stats, record_count, format_type, t) ==
    [total_exports |-> stats.total_exports + 1,
     total_records |-> stats.total_records + record_count,
     formats_used |-> stats.formats_used \cup {format_type},
     last_export |-> Some(t)]

MaxExports == 2

\* heights of the frames exported
FrameHeights == {0, 3}

\* heights of summary_stats: one row for each distinct source of the frame
SummaryHeights == {1, 2}

ExportClocks == {1, 2}

CanExport(t) ==
    /\ export_stats # None
    /\ Len(export_log) < MaxExports
    /\ export_stats.last_export # None => export_stats.last_export[1] <= t

Logged(format, height, ok, after) ==
    /\ export_stats' = after
    /\ export_log' = Append(export_log,
                            [format |-> format, height |-> height, ok |-> ok,
                             before |-> export_stats, after |-> after])
    /\ UNCHANGED << vars, notExp >>

\* export_parquet, export_csv, export_json_lines: the write, then
\* _update_stats; a write that raises leaves the statistics alone
ExportOneFormat(format, height, write_ok, t) ==
    /\ CanExport(t)
    /\ Logged(format, height, write_ok,
              IF write_ok THEN _update_stats(export_stats, height, format, t)
              ELSE export_stats)

\* export_daily_summary_report: summary_stats is selected from the frame,
\* written by export_parquet and by export_csv, and the text report is
\* written; fails_at is the step that raises
ExportDailySummary(height, summary_height, fails_at, t) ==
    /\ CanExport(t)
    /\ LET after_parquet == _update_stats(export_stats, summary_height, "parquet", t)
           after_csv == _update_stats(after_parquet, summary_height, "csv", t)
       IN Logged("summary", height, fails_at = "none",
                 IF fails_at \in {"select", "parquet"} THEN export_stats
                 ELSE IF fails_at = "csv" THEN after_parquet
                 ELSE after_csv)

InitExport ==
    /\ FlowParked
    /\ BackParked
    /\ SessParked
    /\ MonParked
    /\ ConcParked
    /\ ValParked
    /\ ParseParked
    /\ XfParked
    /\ AnomParked
    /\ FreshParked
    /\ export_stats = NewExportStats
    /\ export_log = << >>

NextExport ==
    \/ \E format \in {"parquet", "csv", "jsonl"}, height \in FrameHeights,
          write_ok \in BOOLEAN, t \in ExportClocks :
           ExportOneFormat(format, height, write_ok, t)
    \/ \E height \in FrameHeights, summary_height \in SummaryHeights,
          fails_at \in {"select", "parquet", "csv", "report", "none"}, t \in ExportClocks :
           ExportDailySummary(height, summary_height, fails_at, t)

SpecExport == InitExport /\ [][NextExport]_allVars

\* C18: a successful export of a format adds 1 to total_exports, the height
\* of the exported frame to total_records and the format to formats_used;
\* a failed export changes none of the three
C18_StatsCountEachExport ==
    \A i \in DOMAIN export_log :
        LET call == export_log[i]
        IN IF call.ok
           THEN /\ call.after.total_exports = call.before.total_exports + 1
                /\ call.after.total_records = call.before.total_records + call.height
                /\ call.after.formats_used = call.before.formats_used \cup {call.format}
           ELSE /\ call.after.total_exports = call.before.total_exports
                /\ call.after.total_records = call.before.total_records
                /\ call.after.formats_used = call.before.formats_used

(***************************************************************************)
(* detect_data_anomalies.  The frame is given by the race count of each of *)
(* its days, day i being the i-th race_date; the tracks it holds and the   *)
(* share of unknown track names are chosen at the call.  The mean and the  *)
(* standard deviation are real numbers: the comparisons below are the      *)
(* same comparisons cleared of their denominators and of the square root.  *)
(***************************************************************************)
WeekLength == 7

DayCounts == {8, 9, 10}

RECURSIVE CountLists(_)
CountLists(n) ==
    IF n = 0 THEN {<< >>}
    ELSE { Append(counts, c) : counts \in CountLists(n - 1), c \in DayCounts }

RECURSIVE Sum(_)
Sum(counts) == IF counts = << >> THEN 0 ELSE Head(counts) + Sum(Tail(counts))

RECURSIVE SumOfSquares(_)
SumOfSquares(counts) ==
    IF counts = << >> THEN 0 ELSE Head(counts) * Head(counts) + SumOfSquares(Tail(counts))

\* Len(counts)^2 * (Len(counts) - 1) times the sample variance
ScaledVariance(counts) == Len(counts) * SumOfSquares(counts) - Sum(counts) * Sum(counts)

\* pl.col('race_count').std() is null for a single day; the guard
\* "std_races and std_races > 0"
StdPositive(counts) == Len(counts) >= 2 /\ ScaledVariance(counts) > 0

\* c < mean(counts) - 2 * std(counts)
BelowThreshold(c, counts) ==
    /\ Sum(counts) - Len(counts) * c > 0
    /\ (Len(counts) - 1) * (Sum(counts) - Len(counts) * c) * (Sum(counts) - Len(counts) * c)
           > 4 * Len(counts) * ScaledVariance(counts)

low_volume_days(counts) == { d \in DOMAIN counts : BelowThreshold(counts[d], counts) }

expected_major_tracks == << "ELLERSLIE", "TRENTHAM", "RICCARTON" >>

RECURSIVE MissingTracks(_, _)
MissingTracks(expected, tracks) ==
    IF expected = << >> THEN << >>
    ELSE (IF Head(expected) \in tracks THEN << >>
          ELSE << [type |-> "missing_track", subject |-> << Head(expected) >>] >>)
         \o MissingTracks(Tail(expected), tracks)

\* evaluates: the frame has the columns the expressions name; unknown_over:
\* more than 5% of the records have an unknown track name
detect_data_anomalies(counts, tracks, unknown_over, evaluates) ==
    IF counts = << >> THEN [status |-> "no_data", anomalies |-> << >>]
    ELSE IF ~evaluates THEN [status |-> "error", anomalies |-> << >>]
    ELSE [status |-> "success",
          anomalies |->
              (IF StdPositive(counts) /\ low_volume_days(counts) # {}
               THEN << [type |-> "low_volume", subject |-> low_volume_days(counts)] >>
               ELSE << >>)
              \o MissingTracks(expected_major_tracks, tracks)
              \o (IF unknown_over
                  THEN << [type |-> "data_quality", subject |-> << >>] >> ELSE << >>)]

DetectCall(tracks, unknown_over, evaluates) ==
    /\ anomalies = None
    /\ anomalies' = Some(detect_data_anomalies(daily_counts, tracks, unknown_over, evaluates))
    /\ UNCHANGED << daily_counts, vars, notAnom >>

InitAnomalies ==
    /\ FlowParked
    /\ BackParked
    /\ SessParked
    /\ MonParked
    /\ ConcParked
    /\ ValParked
    /\ ParseParked
    /\ XfParked
    /\ ExpParked
    /\ FreshParked
    /\ daily_counts \in CountLists(0) \cup CountLists(1) \cup CountLists(2)
                           \cup CountLists(WeekLength)
    /\ anomalies = None

NextAnomalies ==
    \E tracks \in SUBSET {"ELLERSLIE", "TRENTHAM", "RICCARTON", "OTAKI"},
       unknown_over \in BOOLEAN, evaluates \in BOOLEAN :
        DetectCall(tracks, unknown_over, evaluates)

SpecAnomalies == InitAnomalies /\ [][NextAnomalies]_allVars

\* the counts of the days other than day d
Others(counts, d) == SubSeq(counts, 1, d - 1) \o SubSeq(counts, d + 1, Len(counts))

\* the days the low_volume anomaly of the result names
LowVolumeDates ==
    UNION { anomalies[1].anomalies[i].subject :
                i \in { j \in DOMAIN anomalies[1].anomalies :
                            anomalies[1].anomalies[j].type = "low_volume" } }

\* C19: over a week of daily counts, when the count of day 5 is more than
\* two standard deviations below the mean of the other days, that
\* deviation being positive, a low_volume anomaly names day 5; when the
\* standard deviation of the daily counts is zero or undefined there is no
\* low_volume anomaly
C19_LowVolumeDayReported ==
    (anomalies # None /\ anomalies[1].status = "success")
        => /\ (/\ Len(daily_counts) = WeekLength
               /\ StdPositive(Others(daily_counts, 5))
               /\ BelowThreshold(daily_counts[5], Others(daily_counts, 5)))
                  => 5 \in LowVolumeDates
           /\ ~StdPositive(daily_counts) => LowVolumeDates = {}

(***************************************************************************)
(* calculate_data_freshness_metrics.  The frame is the list of its rows,   *)
(* of which only scraped_at is kept; instants are seconds.                 *)
(***************************************************************************)
SecondsPerHour == 3600

StaleHours == 25

MaxRows == 2

FreshRows ==
    { Entry("scraped_at", cells) : cells \in {{}, {None}, {Some(0)}, {Some(1)}, {Some(3600)}} }

RECURSIVE Frames(_)
Frames(n) ==
    IF n = 0 THEN {<< >>}
    ELSE Frames(n - 1) \cup { Append(df, row) : df \in Frames(n - 1), row \in FreshRows }

\* the clocks of the call: around 25 hours after the instants 0 and 3600
FreshClocks ==
    {StaleHours * SecondsPerHour - 1, StaleHours * SecondsPerHour,
     StaleHours * SecondsPerHour + 1, StaleHours * SecondsPerHour + 2,
     (StaleHours + 1) * SecondsPerHour, (StaleHours + 1) * SecondsPerHour + 1}

\* pl.col('scraped_at').max(): nulls are skipped, null when all are null
MaxScrapedAt(df) ==
    LET values == { Cell(df[i], "scraped_at")[1] :
                        i \in { j \in DOMAIN df : Cell(df[j], "scraped_at") # None } }
    IN IF values = {} THEN None
       ELSE Some(CHOOSE v \in values : \A w \in values : w <= v)

\* age_hours > 25, with age_hours = seconds / 3600
IsStale_inclusive(age_seconds) == age_seconds >= StaleHours * SecondsPerHour

IsStale(age_seconds) == age_seconds > StaleHours * SecondsPerHour

\* evaluates: the frame has the race_date column the volume metrics group by
calculate_data_freshness_metrics(df, t, evaluates) ==
    IF df = << >> THEN [status |-> "no_data", data_freshness_status |-> None]
    ELSE IF ~evaluates THEN [status |-> "error", data_freshness_status |-> None]
    ELSE LET latest_scrape == IF "scraped_at" \in Columns(df) THEN MaxScrapedAt(df)
                              ELSE None
         IN [status |-> "success",
             data_freshness_status |->
                 IF latest_scrape = None THEN None
                 ELSE IF IsStale(t - latest_scrape[1]) THEN Some("stale")
                 ELSE Some("fresh")]

FreshnessCall(evaluates) ==
    /\ freshness = None
    /\ freshness' = Some(calculate_data_freshness_metrics(scraped_ats, mon_now, evaluates))
    /\ UNCHANGED << scraped_ats, mon_now, vars, notFresh >>

InitFreshness ==
    /\ FlowParked
    /\ BackParked
    /\ SessParked
    /\ MonParked
    /\ ConcParked
    /\ ValParked
    /\ ParseParked
    /\ XfParked
    /\ ExpParked
    /\ AnomParked
    /\ scraped_ats \in Frames(MaxRows)
    /\ mon_now \in FreshClocks
    /\ freshness = None

NextFreshness == \E evaluates \in BOOLEAN : FreshnessCall(evaluates)

SpecFreshness == InitFreshness /\ [][NextFreshness]_allVars

\* the call has returned a freshness status for the frame
FreshnessReported ==
    /\ freshness # None
    /\ freshness[1].status = "success"
    /\ freshness[1].data_freshness_status # None

\* seconds between the latest scraped_at of the frame and the clock
AgeSeconds == mon_now - MaxScrapedAt(scraped_ats)[1]

\* C20: the freshness status is stale exactly when the latest scraped_at is
\* more than 25 hours before the clock, and fresh otherwise
C20_StaleOnlyBeyond25Hours ==
    FreshnessReported
        => /\ freshness[1].data_freshness_status = Some("stale")
                  <=> AgeSeconds > 25 * 60 * 60
           /\ freshness[1].data_freshness_status = Some("fresh")
                  <=> AgeSeconds <= 25 * 60 * 60

\* a frame whose latest scraped_at is exactly 25 hours old is reported fresh
C20_Witness ==
    /\ FreshnessReported
    /\ AgeSeconds = 25 * 60 * 60
    /\ Len(scraped_ats) = 2
    /\ freshness[1].data_freshness_status = Some("fresh")

(***************************************************************************)
(* data_quality_monitoring_flow.  An export file racing_data_<date> holds  *)
(* the rows of its date, scraped at the start of that date, or cannot be   *)
(* read.  A run is shorter than the resolution of the clock, one second.   *)
(***************************************************************************)
LoadCacheExpiration == 30 * 60

MonDates == {0, 1}

ExportFiles == { [count |-> 2, readable |-> TRUE], [count |-> 1, readable |-> FALSE] }

\* the clocks: the start of day 0, the start of day 1, and more than 25
\* hours after it, in day 2
MonClocks ==
    {0, SecondsPerDay, SecondsPerDay + StaleHours * SecondsPerHour + 1}

RECURSIVE Repeat(_, _)
Repeat(row, n) == IF n = 0 THEN << >> ELSE << row >> \o Repeat(row, n - 1)

\* the files of the days today, today - 1, ... that exist are read, the
\* unreadable ones are skipped, and the frames concatenated
RECURSIVE RecentRows(_, _, _, _)
RecentRows(disk, today, i, days_back) ==
    IF i >= days_back THEN << >>
    ELSE (IF today - i \in DOMAIN disk /\ disk[today - i].readable
          THEN Repeat([race_date |-> Some(today - i),
                       scraped_at |-> Some((today - i) * SecondsPerDay)],
                      disk[today - i].count)
          ELSE << >>)
         \o RecentRows(disk, today, i + 1, days_back)

load_recent_data(disk, t, days_back) == RecentRows(disk, Today(t), 0, days_back)

\* df.group_by('race_date').agg(pl.len()): the count of each date
RECURSIVE CountsByDate(_, _)
CountsByDate(df, dates) ==
    IF dates = {} THEN << >>
    ELSE LET d == CHOOSE x \in dates : \A y \in dates : x <= y
         IN << Cardinality({ i \in DOMAIN df : df[i].race_date = Some(d) }) >>
            \o CountsByDate(df, dates \ {d})

DailyCountsOf(df) == CountsByDate(df, { df[i].race_date[1] : i \in DOMAIN df })

overall_status_lenient(issues) == IF issues = << >> THEN "healthy" ELSE "warning"

overall_status(issues) ==
    IF issues = << >> THEN "healthy"
    ELSE IF Len(issues) = 1 THEN "warning" ELSE "critical"

\* the report's issues entry is kept also when it is empty
generate_monitoring_report(freshness_metrics, anomaly_results, t) ==
    LET issues ==
            (IF freshness_metrics.status = "error" THEN << "freshness_check_failed" >>
             ELSE IF freshness_metrics.data_freshness_status = Some("stale")
             THEN << "stale_data" >> ELSE << >>)
            \o (IF anomaly_results.status = "error" THEN << "anomaly_detection_failed" >>
                ELSE IF Len(anomaly_results.anomalies) > 0
                THEN << "anomalies_detected" >> ELSE << >>)
        HasIssue(issue) == \E i \in DOMAIN issues : issues[i] = issue
    IN [timestamp |-> t,
        overall_status |-> overall_status(issues),
        freshness |-> freshness_metrics,
        anomalies |-> anomaly_results,
        issues |-> issues,
        recommendations |->
            (IF HasIssue("stale_data")
             THEN << "Data is stale - check scraping pipeline status" >> ELSE << >>)
            \o (IF HasIssue("anomalies_detected")
                THEN << "Anomalies detected - review data quality and source systems" >>
                ELSE << >>)
            \o (IF issues = << >>
                THEN << "All systems healthy - no action required" >> ELSE << >>)]

\* the path of a report saved at clock t: the clock to the second
report_path(t) == t

\* open(report_path, 'w'): a file of that name, if any, is replaced; the
\* content is kept as the report's overall_status
WriteReport(files, path, report) ==
    [ f \in DOMAIN files \cup {path} |->
          IF f = path THEN report.overall_status ELSE files[f] ]

MaxSaves == 2

\* one run of the flow.  load_ok: reading the directory does not raise;
\* tracks, unknown_over and the two evaluates are as for the two metric
\* tasks called on their own; save_ok: the report file can be opened
MonitoringRun(days_back, load_ok, tracks, unknown_over, fresh_evaluates, anom_evaluates, save_ok) ==
    /\ saves_done < MaxSaves
    /\ LET hit == CacheHit(load_cache, days_back, mon_clock)
           loaded == hit # {} \/ load_ok
           recent_data == IF hit # {} THEN (CHOOSE e \in hit : TRUE).value
                          ELSE load_recent_data(disk_exports, mon_clock, days_back)
           freshness_metrics ==
               calculate_data_freshness_metrics(recent_data, mon_clock, fresh_evaluates)
           anomaly_results ==
               detect_data_anomalies(DailyCountsOf(recent_data), tracks, unknown_over,
                                     anom_evaluates)
           monitoring_report ==
               generate_monitoring_report(freshness_metrics, anomaly_results, mon_clock)
       IN /\ load_cache' = IF hit = {} /\ load_ok
                           THEN CacheStore(load_cache, days_back, recent_data, mon_clock,
                                           LoadCacheExpiration)
                           ELSE load_cache
          /\ IF loaded /\ save_ok
             THEN /\ report_files' = WriteReport(report_files, report_path(mon_clock),
                                                 monitoring_report)
                  /\ saves_done' = saves_done + 1
                  /\ last_run' = Some([raised |-> FALSE,
                                       days_to_analyze |-> days_back,
                                       loaded |-> Len(recent_data),
                                       monitoring_report |-> << monitoring_report >>,
                                       report_path |-> << report_path(mon_clock) >>])
             ELSE /\ UNCHANGED << report_files, saves_done >>
                  /\ last_run' = Some([raised |-> TRUE,
                                       days_to_analyze |-> days_back,
                                       loaded |-> IF loaded THEN Len(recent_data) ELSE 0,
                                       monitoring_report |->
                                           IF loaded THEN << monitoring_report >> ELSE << >>,
                                       report_path |-> << >>])
    /\ UNCHANGED << disk_exports, mon_clock, vars, notMon >>

\* time passes between two runs
MonTick(t) ==
    /\ t > mon_clock
    /\ mon_clock' = t
    /\ UNCHANGED << disk_exports, load_cache, report_files, saves_done, last_run, vars,
                    notMon >>

InitMonitoring ==
    /\ FlowParked
    /\ BackParked
    /\ SessParked
    /\ ConcParked
    /\ ValParked
    /\ ParseParked
    /\ XfParked
    /\ ExpParked
    /\ AnomParked
    /\ FreshParked
    /\ disk_exports \in UNION { [dates -> ExportFiles] : dates \in SUBSET MonDates }
    /\ load_cache = {}
    /\ report_files = << >>
    /\ saves_done = 0
    /\ mon_clock = 0
    /\ last_run = None

NextMonitoring ==
    \/ \E days_back \in {1, 2},
          io \in { << TRUE, TRUE >>, << FALSE, TRUE >>, << TRUE, FALSE >> },
          tracks \in {{"ELLERSLIE", "TRENTHAM", "RICCARTON"}, {"ELLERSLIE"}},
          evaluates \in { << TRUE, TRUE >>, << TRUE, FALSE >>, << FALSE, FALSE >> } :
           MonitoringRun(days_back, io[1], tracks, FALSE, evaluates[1], evaluates[2],
                         io[2])
    \/ \E t \in MonClocks : MonTick(t)

SpecMonitoring == InitMonitoring /\ [][NextMonitoring]_allVars

\* the last run produced a report
Reported == last_run # None /\ last_run[1].monitoring_report # << >>

LastReport == last_run[1].monitoring_report[1]

\* the issue categories that fire on the metrics the report carries
FreshnessIssue(report) ==
    \/ report.freshness.status = "error"
    \/ report.freshness.data_freshness_status = Some("stale")

AnomalyIssue(report) ==
    \/ report.anomalies.status = "error"
    \/ report.anomalies.anomalies # << >>

IssuesFired(report) ==
    (IF FreshnessIssue(report) THEN 1 ELSE 0) + (IF AnomalyIssue(report) THEN 1 ELSE 0)

\* C21: the report is healthy exactly when no issue category fired,
\* warning exactly when one fired and critical exactly when two or more
\* fired; a healthy report carries no stale data and no anomaly
C21_StatusCountsIssues ==
    Reported
        => /\ LastReport.overall_status = "healthy" <=> IssuesFired(LastReport) = 0
           /\ LastReport.overall_status = "warning" <=> IssuesFired(LastReport) = 1
           /\ LastReport.overall_status = "critical" <=> IssuesFired(LastReport) >= 2
           /\ LastReport.overall_status = "healthy"
                  => /\ LastReport.freshness.data_freshness_status # Some("stale")
                     /\ LastReport.anomalies.anomalies = << >>

\* a report on stale data with anomalies is critical
C21_Witness ==
    /\ Reported
    /\ LastReport.freshness.data_freshness_status = Some("stale")
    /\ LastReport.anomalies.status = "success"
    /\ LastReport.anomalies.anomalies # << >>
    /\ LastReport.overall_status = "critical"

\* C22: saving a report never replaces a report saved before: there are as
\* many report files as completed calls of save_monitoring_report
C22_ReportsAppendOnly == Cardinality(DOMAIN report_files) = saves_done

\* no export file exists for any day of the window of the last run
NoExportInWindow ==
    \A i \in 0..(last_run[1].days_to_analyze - 1) :
        Today(LastReport.timestamp) - i \notin DOMAIN disk_exports

\* C29: when no export file exists for the window, so that the loaded frame
\* is empty, the report is not healthy and does not recommend that no
\* action is required
C29_EmptyWindowNotHealthy ==
    (Reported /\ NoExportInWindow)
        => /\ last_run[1].loaded = 0
           /\ LastReport.overall_status # "healthy"
           /\ \A i \in DOMAIN LastReport.recommendations :
                  LastReport.recommendations[i] # "All systems healthy - no action required"

(***************************************************************************)
(* BaseScraper.make_request called any number of times on one session of   *)
(* a TABScraper.  sess_elapsed is the time slept or spent by the caller    *)
(* since the session last sent a request.                                  *)
(***************************************************************************)
MaxRequestCalls == 2

\* the time the caller takes between two calls
CallerPauses == {0, 1}

Later(elapsed, seconds) == IF elapsed = None THEN None ELSE Some(elapsed[1] + seconds)

RECURSIVE Total(_)
Total(times) == IF times = << >> THEN 0 ELSE Head(times) + Total(Tail(times))

\* the caller calls make_request; robots.txt is read and, when it refuses
\* the URL, the call returns None
MakeRequest(robots, pause) ==
    /\ sess_pc = "idle"
    /\ sess_calls < MaxRequestCalls
    /\ sess_calls' = sess_calls + 1
    /\ sess_elapsed' = Later(sess_elapsed, pause)
    /\ sess_attempt' = 0
    /\ sess_pc' = IF check_robots_txt(robots) THEN "request" ELSE "idle"
    /\ sess_last' = None
    /\ UNCHANGED << sess_request_count, sess_failed_requests, vars, notSess >>

\* one pass of the loop: the wait when request_count > 0, session.get, and
\* what follows its outcome: "ok", or the RequestException of RequestErrors
RequestPass(answer, delay) ==
    /\ sess_pc = "request"
    /\ LET waited == IF sess_request_count > 0 THEN << delay >> ELSE << >>
           failed == answer # "ok"
           retried == failed /\ sess_attempt < max_retries - 1
           backoff == IF retried THEN << wait_time(sess_attempt) >> ELSE << >>
       IN /\ sess_request_count' = IF answer = "connection" THEN sess_request_count
                                   ELSE sess_request_count + 1
          /\ sess_failed_requests' = IF failed THEN sess_failed_requests + 1
                                     ELSE sess_failed_requests
          /\ sess_last' = Some([attempt |-> sess_attempt,
                                outcome |-> answer,
                                waited |-> waited,
                                since_last |-> Later(sess_elapsed, Total(waited)),
                                backoff |-> backoff,
                                returned |-> ~retried])
          /\ sess_elapsed' = Some(Total(backoff))
          /\ sess_attempt' = IF retried THEN sess_attempt + 1 ELSE sess_attempt
          /\ sess_pc' = IF retried THEN "request" ELSE "idle"
    /\ UNCHANGED << sess_calls, vars, notSess >>

InitSession ==
    /\ FlowParked
    /\ BackParked
    /\ ConcParked
    /\ ValParked
    /\ ParseParked
    /\ XfParked
    /\ ExpParked
    /\ AnomParked
    /\ FreshParked
    /\ MonParked
    /\ SessParked

NextSession ==
    \/ \E robots \in RobotsAnswers, pause \in CallerPauses : MakeRequest(robots, pause)
    \/ \E answer \in {"ok"} \cup RequestErrors, delay \in Delays :
           RequestPass(answer, delay)

SpecSession == InitSession /\ [][NextSession]_allVars

\* C23: every request of a session after its first is preceded by a delay
\* drawn from base_delay..max_delay, and is sent no less than base_delay
\* after the request before it
C23_DelayBeforeEveryLaterRequest ==
    (sess_last # None /\ sess_last[1].since_last # None)
        => /\ sess_last[1].waited # << >>
           /\ \A i \in DOMAIN sess_last[1].waited :
                  sess_last[1].waited[i] \in base_delay..max_delay
           /\ sess_last[1].since_last[1] >= base_delay

\* C24: after the failed pass numbered k the scraper sleeps base_delay *
\* 2^k before the next pass; it makes at most max_retries passes in a
\* call, sleeps no backoff after the last failed one, and returns at the
\* first pass that succeeds
C24_ExponentialBackoff ==
    /\ sess_attempt < 3
    /\ sess_last # None
           => LET pass == sess_last[1]
              IN /\ pass.attempt \in 0..2
                 /\ pass.outcome = "ok" => pass.returned /\ pass.backoff = << >>
                 /\ (pass.outcome # "ok" /\ pass.attempt < 2)
                        => /\ ~pass.returned
                           /\ pass.backoff
                                  = << CASE pass.attempt = 0 -> 2 [] pass.attempt = 1 -> 4 >>
                 /\ (pass.outcome # "ok" /\ pass.attempt = 2)
                        => pass.returned /\ pass.backoff = << >>

\* the second pass of a call has failed and the scraper has slept 4 seconds
C24_Witness ==
    /\ sess_last # None
    /\ sess_last[1].outcome # "ok"
    /\ sess_last[1].attempt = 1
    /\ sess_last[1].backoff = << 4 >>
    /\ sess_pc = "request"
    /\ sess_attempt = 2

\* get_request_stats: success_rate as numerator and denominator
get_request_stats(request_total, failed_total) ==
    [total_requests |-> request_total,
     failed_requests |-> failed_total,
     success_rate |-> << request_total - failed_total,
                         IF request_total > 1 THEN request_total ELSE 1 >>]

\* C28: after any calls of make_request, failed_requests is at most
\* request_count and the success rate lies between 0 and 1
C28_FailedAtMostRequested ==
    LET stats == get_request_stats(sess_request_count, sess_failed_requests)
    IN /\ stats.failed_requests <= stats.total_requests
       /\ stats.success_rate[1] >= 0
       /\ stats.success_rate[1] <= stats.success_rate[2]

\* C25: every result of the validator, that of an empty batch included,
\* carries in its stats the score (16 - errors) / 16, not below 0; the
\* score lies between 0 and 1 and is 1 exactly when the batch is valid
C25_EveryResultCarriesScore ==
    \A res \in ValResults :
        /\ "data_quality_score" \in DOMAIN res.stats
        /\ LET score == res.stats.data_quality_score
               remaining == IF 16 - Len(res.errors) > 0 THEN 16 - Len(res.errors) ELSE 0
           IN /\ score = << remaining, 16 >>
              /\ score[1] >= 0 /\ score[1] <= score[2]
              /\ score[1] = score[2] <=> res.is_valid

(***************************************************************************)
(* Further properties of daily_race_scraping_flow.                         *)
(***************************************************************************)
\* C26: once the export stage of an execution is over, the execution ends
\* with status success: a failure of the quality metrics neither makes it
\* failed nor has the flow executed again
C26_MetricsFailureIsAdvisory ==
    "metrics" \in Range(stages)
        => /\ pc = "done"
           /\ outcome = "returned"
           /\ StatusOf(pipeline_stats) = "success"

\* C27: the empty list the fetch stage returns when every attempt failed
\* or robots.txt refused the request is not stored in the cache
C27_FailedFetchNotCached ==
    [][(pc = "close" /\ request_result \in {"exhausted", "disallowed"})
           => scrape_cache' = scrape_cache]_allVars

(***************************************************************************)
(* backfill_racing_data_flow(start_date, end_date, max_parallel).  A run   *)
(* of daily_race_scraping_flow is taken by what it hands back: a summary   *)
(* with one of the statuses it returns with, or an exception.              *)
(***************************************************************************)
MaxBackfillDay == 2

\* max_parallel is a limit on concurrent runs: the default and the least
ParallelLimits == {1, 3}

\* the statuses daily_race_scraping_flow returns with
ReturnedStatuses == {"success", "no_data", "validation_failed"}

\* current_date += timedelta(days=1)
NextDate_skip(d) == d + 2

NextDate(d) == d + 1

\* the loop test holds: daily_race_scraping_flow(target_date=current_date)
\* is called
BackfillCall ==
    /\ back_pc = "loop"
    /\ current_date <= end_date
    /\ in_progress' = in_progress + 1
    /\ back_pc' = "running"
    /\ UNCHANGED << start_date, end_date, max_parallel, current_date, results,
                    raised_dates, back_returned, vars, notBack >>

\* the run returns its summary
BackfillRunReturns(status) ==
    /\ back_pc = "running"
    /\ results' = Append(results, [target_date |-> current_date, status |-> status])
    /\ current_date' = NextDate(current_date)
    /\ in_progress' = in_progress - 1
    /\ back_pc' = "loop"
    /\ UNCHANGED << start_date, end_date, max_parallel, raised_dates, back_returned, vars,
                    notBack >>

\* the run raises: the except block appends a failed entry
BackfillRunRaises ==
    /\ back_pc = "running"
    /\ results' = Append(results, [target_date |-> current_date, status |-> "failed",
                                   error |-> "e"])
    /\ raised_dates' = raised_dates \cup {current_date}
    /\ current_date' = NextDate(current_date)
    /\ in_progress' = in_progress - 1
    /\ back_pc' = "loop"
    /\ UNCHANGED << start_date, end_date, max_parallel, back_returned, vars, notBack >>

\* the loop test fails: return results
BackfillReturn ==
    /\ back_pc = "loop"
    /\ current_date > end_date
    /\ back_returned' = Some(results)
    /\ back_pc' = "returned"
    /\ UNCHANGED << start_date, end_date, max_parallel, current_date, results, in_progress,
                    raised_dates, vars, notBack >>

InitBackfill ==
    /\ FlowParked
    /\ ConcParked
    /\ ValParked
    /\ ParseParked
    /\ XfParked
    /\ ExpParked
    /\ AnomParked
    /\ FreshParked
    /\ MonParked
    /\ SessParked
    /\ start_date \in 0..MaxBackfillDay
    /\ end_date \in 0..MaxBackfillDay
    /\ max_parallel \in ParallelLimits
    /\ current_date = start_date
    /\ results = << >>
    /\ back_pc = "loop"
    /\ in_progress = 0
    /\ raised_dates = {}
    /\ back_returned = None

NextBackfill ==
    \/ BackfillCall
    \/ \E status \in ReturnedStatuses : BackfillRunReturns(status)
    \/ BackfillRunRaises
    \/ BackfillReturn

SpecBackfill == InitBackfill /\ [][NextBackfill]_allVars

\* C30: the dates from start_date to end_date are run one at a time in
\* ascending order and the flow returns one result for each date in that
\* order; a run that raises is recorded as failed and the dates after it
\* are still run; no more than max_parallel runs are in progress; with
\* start_date after end_date the result is empty
C30_BackfillCoversRangeInOrder ==
    /\ in_progress <= 1
    /\ in_progress <= max_parallel
    /\ \A i \in DOMAIN results : results[i].target_date = start_date + i - 1
    /\ \A i \in DOMAIN results :
           results[i].target_date \in raised_dates => results[i].status = "failed"
    /\ back_pc = "returned"
           => /\ back_returned = Some(results)
              /\ Len(results) = IF start_date > end_date THEN 0
                                ELSE end_date - start_date + 1

\* a backfill of three dates has returned, the run of the second having
\* raised and the runs after it having been made
C30_Witness ==
    /\ back_pc = "returned"
    /\ Len(back_returned[1]) = 3
    /\ raised_dates = {start_date + 1}
    /\ back_returned[1][2].status = "failed"
    /\ back_returned[1][3].status = "success"
====
